---- MODULE Spec2Model ----
(***************************************************************************)
(* A model of the homework-status bot: homework.py (check_tokens,          *)
(* send_message, get_api_answer, check_response, parse_status,             *)
(* process_homework, main) and the minimal-variant loop of exp.py.         *)
(*                                                                         *)
(* Conventions.                                                            *)
(*  - A text (str) is a sequence of fragments; an f-string is the          *)
(*    concatenation of its fragments, `a in b` is "fragment a occurs in    *)
(*    b".  Russian literals are transliterated to ASCII.                   *)
(*  - None, for a variable that otherwise holds a text, is the empty       *)
(*    sequence: no text the program builds is empty, and Python's          *)
(*    truthiness test (`if previous_error:`) treats both alike.            *)
(*  - A dict is a record with one has_<key> flag per key the code tests.   *)
(*  - An exception is a record [type, args]; str(exc) is Str(exc).         *)
(***************************************************************************)
EXTENDS Integers, Sequences, FiniteSets, TLC

VARIABLES
    env,              \* os.getenv results: PRACTICUM_TOKEN, TELEGRAM_TOKEN, TELEGRAM_CHAT_ID
    pc,               \* position of main(): check_tokens, fetch, await, loop, sleep, exited, crashed
    exit_code,        \* process exit status (-1 while running)
    timestamp,        \* main: timestamp
    previous_status,  \* main: previous_status
    previous_name,    \* main: previous_name
    previous_error,   \* main: previous_error
    homeworks,        \* main: the records the for loop has not reached yet
    timestamp_moved,  \* history: timestamp differs from its value at the start of the cycle
    raised,           \* history: the exception caught in the current cycle
    calls,            \* history: the send_message calls of the current cycle
    last_log,         \* history: level of the last record logger wrote in the cycle
    last_error_sent,  \* history: error text delivered last, nothing delivered or recorded since
    yielded,          \* history: (status, name) parse_status extracted last, in this
                      \* cycle or in the one before (None: that cycle extracted none)
    from_date,        \* the from_date parameter of the request in flight
    cycle_last_seen,  \* history: (previous_status, previous_name) at the start of the cycle
    cycle_last,       \* history: the last record of the list validated in the cycle
    last_status_sent, \* history: (text, name) of the status notification delivered last
    x_pc,             \* exp.py: position of the loop
    x_timestamp,      \* exp.py: timestamp
    current_status,   \* exp.py: current_status
    current_error,    \* exp.py: current_error
    x_raised,         \* exp.py history: exception that left the loop
    cr_in,            \* check_response: the argument of the call
    cr_out,           \* check_response: its outcome
    ps_in,            \* parse_status: the argument of the call
    ps_out            \* parse_status: its outcome

vars == <<env, pc, exit_code, timestamp, previous_status, previous_name,
          previous_error, homeworks, timestamp_moved, raised, calls, last_log,
          last_error_sent, yielded,
          from_date, cycle_last_seen, cycle_last, last_status_sent,
          x_pc, x_timestamp, current_status, current_error, x_raised,
          cr_in, cr_out, ps_in, ps_out>>

main_vars == <<env, pc, exit_code, timestamp, previous_status, previous_name,
               previous_error, homeworks, timestamp_moved, raised, calls,
               last_log, last_error_sent, yielded,
               from_date, cycle_last_seen, cycle_last, last_status_sent>>

exp_vars == <<x_pc, x_timestamp, current_status, current_error, x_raised>>

pure_vars == <<cr_in, cr_out, ps_in, ps_out>>

---------------------------------------------------------------------------
(* Bounds *)

\* longest homeworks list the server returns
MaxRecords == 2

\* largest value of time.time() and of current_date
MaxDate == 1

---------------------------------------------------------------------------
(* Values *)

None == <<>>

NoExc == [type |-> "", args |-> <<>>]

Exc(type, args) == [type |-> type, args |-> args]

\* str(exc): KeyError shows the repr of its argument, the others the argument
Str(exc) ==
    IF exc.type = "KeyError" THEN <<"'">> \o exc.args \o <<"'">> ELSE exc.args

\* `fragment in text`
Contains(text, fragment) == \E i \in 1..Len(text) : text[i] = fragment

\* the double quote character of a text
Quote == "''"

\* settings.ENDPOINT
ENDPOINT == "https://practicum.yandex.ru/api/user_api/homework_statuses/"

\* settings.HOMEWORK_VERDICTS
HOMEWORK_VERDICTS ==
    [approved  |-> "Rabota proverena: revyueru vsyo ponravilos.",
     reviewing |-> "Rabota vzyata na proverku revyuerom.",
     rejected  |-> "Rabota proverena: u revyuera est zamechaniya."]

\* int(time.time())
Clock == 1..MaxDate

Dates == 0..MaxDate

---------------------------------------------------------------------------
(* Inputs: what the environment, the server and Telegram can hand the bot *)

\* one os.getenv result: unset (None) or a string, possibly empty
Unset == [set |-> FALSE, value |-> ""]

Value(v) == [set |-> TRUE, value |-> v]

Environment(p, t, c) ==
    [PRACTICUM_TOKEN |-> p, TELEGRAM_TOKEN |-> t, TELEGRAM_CHAT_ID |-> c]

Environments ==
    { Environment(Value("p-token"), Value("1234:t-token"), Value("42")),
      Environment(Unset, Value("1234:t-token"), Value("42")),
      Environment(Value("p-token"), Unset, Value("42")),
      Environment(Value("p-token"), Value("1234:t-token"), Unset),
      Environment(Value(""), Value("1234:t-token"), Value("42")),
      Environment(Value("p-token"), Value(""), Value("42")) }

\* one homework dict of the homeworks list
Homework(name, status) ==
    [has_homework_name |-> TRUE, homework_name |-> name,
     has_status |-> TRUE, status |-> status]

NoNameHomework(status) ==
    [has_homework_name |-> FALSE, homework_name |-> "",
     has_status |-> TRUE, status |-> status]

NoStatusHomework(name) ==
    [has_homework_name |-> TRUE, homework_name |-> name,
     has_status |-> FALSE, status |-> ""]

\* the records the server returns to the poll loop
Records ==
    { Homework("proj1", "reviewing"), Homework("proj2", "approved"),
      Homework("proj1", "unknown_code") }

\* the records parse_status is applied to on its own
AllRecords ==
    { Homework(n, s) : n \in {"proj1", "proj2"},
                       s \in {"approved", "reviewing", "rejected", "unknown_code"} }
    \cup { NoNameHomework(s) : s \in {"approved", "unknown_code"} }
    \cup { NoStatusHomework(n) : n \in {"proj1"} }

SeqsUpTo(S, n) == UNION { [1..k -> S] : k \in 0..n }

\* a decoded JSON body: a dict with some of the keys homeworks and
\* current_date, or a value of another type
Payload(type, hh, hw_type, hws, hc, cd) ==
    [type |-> type,
     has_homeworks |-> hh, homeworks_type |-> hw_type, homeworks |-> hws,
     has_current_date |-> hc, current_date |-> cd]

GoodPayloads ==
    { Payload("dict", TRUE, "list", hws, TRUE, cd) :
        hws \in SeqsUpTo(Records, MaxRecords), cd \in Dates }

BadPayloads ==
    { Payload("list", FALSE, "", <<>>, FALSE, 0),
      Payload("dict", FALSE, "", <<>>, TRUE, 1),
      Payload("dict", FALSE, "", <<>>, FALSE, 0),
      Payload("dict", TRUE, "list", <<>>, FALSE, 0),
      Payload("dict", TRUE, "dict", <<>>, TRUE, 1),
      Payload("dict", TRUE, "str", <<>>, FALSE, 0) }

Payloads == GoodPayloads \cup BadPayloads

\* what requests.get does: raises, or answers with a status code and a body
\* that decodes to a payload or does not decode
NoBody == Payload("", FALSE, "", <<>>, FALSE, 0)

NetworkDown ==
    [raises |-> TRUE, error |-> "Connection refused", status_code |-> 0,
     json_ok |-> FALSE, body |-> NoBody]

HttpReply(code, json_ok, body) ==
    [raises |-> FALSE, error |-> "", status_code |-> code,
     json_ok |-> json_ok, body |-> body]

Replies ==
    { NetworkDown, HttpReply(500, FALSE, NoBody), HttpReply(200, FALSE, NoBody) }
    \cup { HttpReply(200, TRUE, p) : p \in Payloads }

\* what bot.send_message does: delivers, or raises a TelegramError with a text
Delivered == [ok |-> TRUE, error |-> <<>>]

TelegramError(text) == [ok |-> FALSE, error |-> text]

SendOutcomes ==
    { Delivered,
      TelegramError(<<"API Telegram nedostupno">>),
      TelegramError(<<"Timed out">>) }

---------------------------------------------------------------------------
(* homework.py: the functions main calls *)

\* the outcome of a call: a returned value, or a raised exception
Return(v) == [ok |-> TRUE, value |-> v, exc |-> NoExc]

Raise(type, args) == [ok |-> FALSE, value |-> <<>>, exc |-> Exc(type, args)]

\* check_tokens: the names of the globals that are None (ENDPOINT is
\* imported from settings and never None)
missing_tokens(e) ==
    SelectSeq(<<"PRACTICUM_TOKEN", "TELEGRAM_TOKEN", "TELEGRAM_CHAT_ID">>,
              LAMBDA key : ~e[key].set)

check_tokens(e) ==
    IF missing_tokens(e) # <<>>
    THEN Raise("Exception", <<"Nedostayushchie peremennye: ">> \o missing_tokens(e))
    ELSE Return(<<>>)

\* telegram.Bot(token=TELEGRAM_TOKEN): the library rejects an empty token
Bot(e) ==
    IF e.TELEGRAM_TOKEN.value = ""
    THEN Raise("InvalidToken", <<"Invalid token">>)
    ELSE Return(<<>>)

\* get_api_answer: the from_date parameter of the request
from_date_param(ts, now) == IF ts # 0 THEN ts ELSE now

\* get_api_answer: the decoded body, or GetAPIAnswerException
get_api_answer(reply) ==
    IF reply.raises
    THEN Raise("GetAPIAnswerException",
               <<"Endpoint ", ENDPOINT, " nedostupen: ", reply.error>>)
    ELSE IF reply.status_code # 200
    THEN Raise("GetAPIAnswerException",
               <<"Kod otveta API: ", ToString(reply.status_code)>>)
    ELSE IF ~reply.json_ok
    THEN Raise("GetAPIAnswerException",
               <<"Oshibka preobrazovaniya k formatu json: ", "Expecting value">>)
    ELSE Return(reply.body)

\* check_response without the current_date entry of error_messages
check_response_lenient(response) ==
    IF response.type # "dict"
    THEN Raise("TypeError",
               <<"Tip dannyh v otvete ot API ne sootvetstvuet ozhidaemomu.",
                 " Poluchen: ", response.type>>)
    ELSE IF ~response.has_homeworks
    THEN Raise("CheckResponseException", <<"Klyuch homeworks nedostupen">>)
    ELSE IF response.homeworks_type # "list"
    THEN Raise("TypeError",
               <<"V otvete ot API domashki prihodyat ne v vide spiska. ",
                 "Poluchen: ", response.homeworks_type>>)
    ELSE Return(response.homeworks)

\* check_response: the homeworks list, or TypeError / CheckResponseException
check_response(response) ==
    IF response.type # "dict"
    THEN Raise("TypeError",
               <<"Tip dannyh v otvete ot API ne sootvetstvuet ozhidaemomu.",
                 " Poluchen: ", response.type>>)
    ELSE IF ~response.has_homeworks
    THEN Raise("CheckResponseException", <<"Klyuch homeworks nedostupen">>)
    ELSE IF ~response.has_current_date
    THEN Raise("CheckResponseException", <<"Klyuch current_date nedostupen">>)
    ELSE IF response.homeworks_type # "list"
    THEN Raise("TypeError",
               <<"V otvete ot API domashki prihodyat ne v vide spiska. ",
                 "Poluchen: ", response.homeworks_type>>)
    ELSE Return(response.homeworks)

\* parse_status giving a text for a status outside HOMEWORK_VERDICTS
\* instead of raising ParseStatusException
parse_status_passes_unknown(homework) ==
    IF ~homework.has_homework_name
    THEN Raise("KeyError", <<"Klyuch homework_name nedostupen">>)
    ELSE IF ~homework.has_status
    THEN Raise("KeyError", <<"Klyuch status nedostupen">>)
    ELSE Return(<<"Izmenilsya status proverki raboty ", Quote,
                  homework.homework_name, Quote, ". ", homework.status>>)

\* parse_status testing the status before the keys, and leaving the
\* homework name out of the text
parse_status_verdict_only(homework) ==
    IF homework.status \in DOMAIN HOMEWORK_VERDICTS
    THEN Return(<<"Izmenilsya status proverki raboty ", ". ",
                  HOMEWORK_VERDICTS[homework.status]>>)
    ELSE IF ~homework.has_homework_name
    THEN Raise("KeyError", <<"Klyuch homework_name nedostupen">>)
    ELSE IF ~homework.has_status
    THEN Raise("KeyError", <<"Klyuch status nedostupen">>)
    ELSE Raise("ParseStatusException",
               <<"Peredan neizvestnyi status domashnei raboty ", Quote,
                 homework.status, Quote>>)

\* parse_status: the notification text, or KeyError / ParseStatusException
parse_status(homework) ==
    IF ~homework.has_homework_name
    THEN Raise("KeyError", <<"Klyuch homework_name nedostupen">>)
    ELSE IF ~homework.has_status
    THEN Raise("KeyError", <<"Klyuch status nedostupen">>)
    ELSE IF homework.status \in DOMAIN HOMEWORK_VERDICTS
    THEN Return(<<"Izmenilsya status proverki raboty ", Quote,
                  homework.homework_name, Quote, ". ",
                  HOMEWORK_VERDICTS[homework.status]>>)
    ELSE Raise("ParseStatusException",
               <<"Peredan neizvestnyi status domashnei raboty ", Quote,
                 homework.status, Quote>>)

\* send_message: a TelegramError becomes SendMessageException(error)
send_message(message, outcome) ==
    IF outcome.ok THEN Return(message)
    ELSE Raise("SendMessageException", outcome.error)

\* one entry of the history of send_message calls
Call(kind, message, outcome) ==
    [kind |-> kind, text |-> message, ok |-> outcome.ok]

\* process_homework: what main receives.  exc is the exception that left
\* the call (then main's three variables keep their values: the tuple
\* assignment never happens), o1 and o2 are what Telegram does with the
\* pending-error send and with the status send.
ProcessResult(exc, ps, pn, pe, cs, log) ==
    [exc |-> exc, previous_status |-> ps, previous_name |-> pn,
     previous_error |-> pe, calls |-> cs, log |-> log]

\* send_notifications returning normally, last-seen assigned, when the
\* send of the status notification has failed
send_notifications_swallows_failure(homework_status, homework_name, ps, pn, pe, o1, o2) ==
    LET first == send_message(pe, o1)
        c1 == Call("error", pe, o1)
        c2 == Call("status", homework_status, o2)
    IN  IF pe # None /\ ~first.ok
        THEN ProcessResult(first.exc, ps, pn, pe, <<c1>>, "none")
        ELSE IF pe # None
        THEN ProcessResult(NoExc, homework_status, <<homework_name>>, None,
                           <<c1, c2>>, "none")
        ELSE ProcessResult(NoExc, homework_status, <<homework_name>>, pe,
                           <<c2>>, "none")

\* send_notifications sending the status notification before the pending
\* error
send_notifications_status_first(homework_status, homework_name, ps, pn, pe, o1, o2) ==
    LET first == send_message(pe, o1)
        second == send_message(homework_status, o2)
        c1 == Call("error", pe, o1)
        c2 == Call("status", homework_status, o2)
    IN  IF ~second.ok
        THEN ProcessResult(second.exc, ps, pn, pe, <<c2>>, "none")
        ELSE IF pe # None /\ ~first.ok
        THEN ProcessResult(first.exc, ps, pn, pe, <<c2, c1>>, "none")
        ELSE IF pe # None
        THEN ProcessResult(NoExc, homework_status, <<homework_name>>, None,
                           <<c2, c1>>, "none")
        ELSE ProcessResult(NoExc, homework_status, <<homework_name>>, pe,
                           <<c2>>, "none")

\* send_notifications without the assignments of lines 170-171: the
\* notification is sent and last-seen stays what it was
send_notifications_forgets(homework_status, homework_name, ps, pn, pe, o1, o2) ==
    LET first == send_message(pe, o1)
        second == send_message(homework_status, o2)
        c1 == Call("error", pe, o1)
        c2 == Call("status", homework_status, o2)
    IN  IF pe # None /\ ~first.ok
        THEN ProcessResult(first.exc, ps, pn, pe, <<c1>>, "none")
        ELSE IF pe # None /\ ~second.ok
        THEN ProcessResult(second.exc, ps, pn, pe, <<c1, c2>>, "none")
        ELSE IF pe # None
        THEN ProcessResult(NoExc, ps, pn, None, <<c1, c2>>, "none")
        ELSE IF ~second.ok
        THEN ProcessResult(second.exc, ps, pn, pe, <<c2>>, "none")
        ELSE ProcessResult(NoExc, ps, pn, pe, <<c2>>, "none")

\* process_homework, lines 170-177: the record differs from last-seen
send_notifications(homework_status, homework_name, ps, pn, pe, o1, o2) ==
    LET first == send_message(pe, o1)
        second == send_message(homework_status, o2)
        c1 == Call("error", pe, o1)
        c2 == Call("status", homework_status, o2)
    IN  IF pe # None /\ ~first.ok
        THEN ProcessResult(first.exc, ps, pn, pe, <<c1>>, "none")
        ELSE IF pe # None /\ ~second.ok
        THEN ProcessResult(second.exc, ps, pn, pe, <<c1, c2>>, "none")
        ELSE IF pe # None
        THEN ProcessResult(NoExc, homework_status, <<homework_name>>, None,
                           <<c1, c2>>, "none")
        ELSE IF ~second.ok
        THEN ProcessResult(second.exc, ps, pn, pe, <<c2>>, "none")
        ELSE ProcessResult(NoExc, homework_status, <<homework_name>>, pe,
                           <<c2>>, "none")

\* process_homework comparing previous_status with the record's status key
\* instead of the text parse_status returned
process_homework_raw_status(homework, ps, pn, pe, o1, o2) ==
    LET parsed == parse_status(homework)
        homework_status == parsed.value
        homework_name == homework.homework_name
    IN  IF ~parsed.ok
        THEN ProcessResult(parsed.exc, ps, pn, pe, <<>>, "error")
        ELSE IF ps = <<homework.status>> /\ pn = <<homework_name>>
        THEN ProcessResult(NoExc, ps, pn, pe, <<>>, "info")
        ELSE send_notifications(homework_status, homework_name, ps, pn, pe,
                                o1, o2)

process_homework(homework, ps, pn, pe, o1, o2) ==
    LET parsed == parse_status(homework)
        homework_status == parsed.value
        homework_name == homework.homework_name
    IN  IF ~parsed.ok
        THEN ProcessResult(parsed.exc, ps, pn, pe, <<>>, "error")
        ELSE IF ps = homework_status /\ pn = <<homework_name>>
        THEN ProcessResult(NoExc, ps, pn, pe, <<>>, "info")
        ELSE send_notifications(homework_status, homework_name, ps, pn, pe,
                                o1, o2)

\* main_except without the test of line 221: every send failure is
\* recorded
main_except_always_records(exc, pe) ==
    IF exc.type = "SendMessageException"
    THEN <<"Oshibka otpravki soobshcheniya: ">> \o Str(exc)
    ELSE <<"Sboi v rabote programmy: ">> \o Str(exc)

\* main_except with the `continue` path ending with no error pending
main_except_drops_pending(exc, pe) ==
    IF exc.type = "SendMessageException"
    THEN IF Contains(Str(exc), "API Telegram nedostupno")
         THEN None
         ELSE <<"Oshibka otpravki soobshcheniya: ">> \o Str(exc)
    ELSE <<"Sboi v rabote programmy: ">> \o Str(exc)

\* main, lines 218-227: previous_error after the handler of exc has run
main_except(exc, pe) ==
    IF exc.type = "SendMessageException"
    THEN IF Contains(Str(exc), "API Telegram nedostupno")
         THEN pe
         ELSE <<"Oshibka otpravki soobshcheniya: ">> \o Str(exc)
    ELSE <<"Sboi v rabote programmy: ">> \o Str(exc)

\* main, lines 218-229: where control goes once exc was raised in the try
\* block: both handlers end in the finally clause (the `continue` too),
\* and every exception the model raises is an Exception
\* main_after_except with the `continue` of line 222 leaving the try
\* statement before the finally clause
main_after_except_skips_sleep(exc) ==
    IF exc.type = "SendMessageException"
         /\ Contains(Str(exc), "API Telegram nedostupno")
    THEN "fetch"
    ELSE "sleep"

\* main_after_except with the SendMessageException handler raising again
main_after_except_reraises(exc) ==
    IF exc.type = "SendMessageException" THEN "crashed" ELSE "sleep"

main_after_except(exc) == "sleep"

---------------------------------------------------------------------------
(* homework.py: main *)

\* no request is in flight
NoRequest == -1

\* the last record of a validated list, if it has one
last_of(hws) == IF hws = <<>> THEN <<>> ELSE <<hws[Len(hws)]>>

\* rest_of for a loop that looks at the first record only, as exp.py
\* does with homework[0]
rest_of_first_only(hws) == <<>>

\* main, line 206: the records the for loop still has to visit after the
\* one it has just processed
rest_of(hws) == Tail(hws)

\* (text, name) of the status notification delivered last, once
\* process_homework has made the calls cs for homework
StatusSentAfter(sent, cs, homework) ==
    IF \E i \in 1..Len(cs) : cs[i].kind = "status" /\ cs[i].ok
    THEN <<parse_status(homework).value, <<homework.homework_name>>>>
    ELSE sent

\* the calls of cs that delivered their message
DeliveredCalls(cs) == SelectSeq(cs, LAMBDA c : c.ok)

\* last_error_sent once the calls cs were made and previous_error went from
\* pe to new_pe in an exception handler (handled) or not
ErrorSentAfter(les, cs, handled, pe, new_pe) ==
    LET d == DeliveredCalls(cs)
        after_calls ==
            IF d = <<>> THEN les
            ELSE IF d[Len(d)].kind = "error" THEN d[Len(d)].text
            ELSE None
    IN  IF handled /\ new_pe # pe THEN None ELSE after_calls

\* the try block left by exc: lines 218-229
Except(exc, cs) ==
    /\ previous_error' = main_except(exc, previous_error)
    /\ pc' = main_after_except(exc)
    /\ raised' = exc
    /\ calls' = calls \o cs
    /\ last_log' = "error"
    /\ last_error_sent' =
           ErrorSentAfter(last_error_sent, cs, TRUE, previous_error,
                          main_except(exc, previous_error))
    /\ homeworks' = <<>>
    /\ UNCHANGED <<previous_status, previous_name>>

\* main, lines 184-196: check_tokens, the bot, the initial loop state
Startup ==
    /\ pc = "check_tokens"
    /\ IF ~check_tokens(env).ok
       THEN /\ pc' = "exited"
            /\ exit_code' = 1
            /\ last_log' = "critical"
            /\ UNCHANGED timestamp
       ELSE IF ~Bot(env).ok
       THEN /\ pc' = "crashed"
            /\ exit_code' = 1
            /\ UNCHANGED <<last_log, timestamp>>
       ELSE /\ pc' = "fetch"
            /\ \E now \in Clock : timestamp' = now
            /\ UNCHANGED <<exit_code, last_log>>
    /\ timestamp_moved' = FALSE
    /\ UNCHANGED <<env, previous_status, previous_name, previous_error,
                   homeworks, raised, calls, last_error_sent, yielded,
                   from_date, cycle_last_seen, cycle_last, last_status_sent>>
    /\ UNCHANGED <<exp_vars, pure_vars>>

\* main, line 200, get_api_answer, lines 64-70: the request leaves with
\* its from_date parameter
Request ==
    /\ pc = "fetch"
    /\ pc' = "await"
    /\ \E now \in Clock : from_date' = from_date_param(timestamp, now)
    /\ UNCHANGED <<env, exit_code, timestamp, previous_status, previous_name,
                   previous_error, homeworks, timestamp_moved, raised, calls,
                   last_log, last_error_sent, yielded, cycle_last_seen,
                   cycle_last, last_status_sent>>
    /\ UNCHANGED <<exp_vars, pure_vars>>

\* main, lines 200-204: the reply, the validation, the new timestamp
Fetch ==
    /\ pc = "await"
    /\ \E reply \in Replies :
         LET response == get_api_answer(reply)
             checked == check_response(response.value)
         IN  IF ~response.ok
             THEN /\ Except(response.exc, <<>>)
                  /\ yielded' = None
                  /\ UNCHANGED <<timestamp, timestamp_moved, cycle_last>>
             ELSE IF ~checked.ok
             THEN /\ Except(checked.exc, <<>>)
                  /\ yielded' = None
                  /\ UNCHANGED <<timestamp, timestamp_moved, cycle_last>>
             ELSE /\ timestamp' = response.value.current_date
                  /\ timestamp_moved' = (timestamp' # timestamp)
                  /\ homeworks' = checked.value
                  /\ pc' = IF checked.value = <<>> THEN "sleep" ELSE "loop"
                  /\ last_log' = IF checked.value = <<>> THEN "info" ELSE last_log
                  /\ yielded' = IF checked.value = <<>> THEN None ELSE yielded
                  /\ cycle_last' = last_of(checked.value)
                  /\ UNCHANGED <<previous_status, previous_name,
                                 previous_error, raised, calls,
                                 last_error_sent>>
    /\ from_date' = NoRequest
    /\ UNCHANGED <<env, exit_code, cycle_last_seen, last_status_sent>>
    /\ UNCHANGED <<exp_vars, pure_vars>>

\* what Telegram can do with the send of the pending error: with none
\* pending there is no such send, and one outcome stands for "not asked"
PendingErrorOutcomes(pe) == IF pe # None THEN SendOutcomes ELSE {Delivered}

\* main, lines 206-216: one turn of the for loop
ProcessHomework ==
    /\ pc = "loop"
    /\ homeworks # <<>>
    /\ \E o1 \in PendingErrorOutcomes(previous_error), o2 \in SendOutcomes :
         LET homework == Head(homeworks)
             r == process_homework(homework, previous_status, previous_name,
                                   previous_error, o1, o2)
         IN  /\ IF r.exc # NoExc
                THEN Except(r.exc, r.calls)
                ELSE /\ previous_status' = r.previous_status
                     /\ previous_name' = r.previous_name
                     /\ previous_error' = r.previous_error
                     /\ homeworks' = rest_of(homeworks)
                     /\ pc' = IF rest_of(homeworks) = <<>> THEN "sleep" ELSE "loop"
                     /\ calls' = calls \o r.calls
                     /\ last_log' = IF r.log = "none" THEN last_log ELSE r.log
                     /\ last_error_sent' =
                            ErrorSentAfter(last_error_sent, r.calls, FALSE,
                                           previous_error, r.previous_error)
                     /\ UNCHANGED raised
             /\ yielded' =
                    IF parse_status(homework).ok
                    THEN <<parse_status(homework).value,
                           <<homework.homework_name>>>>
                    ELSE yielded
             /\ last_status_sent' =
                    StatusSentAfter(last_status_sent, r.calls, homework)
    /\ UNCHANGED <<env, exit_code, timestamp, timestamp_moved, from_date,
                   cycle_last_seen, cycle_last>>
    /\ UNCHANGED <<exp_vars, pure_vars>>

\* main, line 229, and the return to the top of the while loop
Sleep ==
    /\ pc = "sleep"
    /\ pc' = "fetch"
    /\ timestamp_moved' = FALSE
    /\ raised' = NoExc
    /\ calls' = <<>>
    /\ last_log' = "none"
    /\ cycle_last_seen' = <<previous_status, previous_name>>
    /\ cycle_last' = <<>>
    /\ UNCHANGED <<env, exit_code, timestamp, previous_status, previous_name,
                   previous_error, homeworks, last_error_sent, yielded,
                   from_date, last_status_sent>>
    /\ UNCHANGED <<exp_vars, pure_vars>>

\* the state at the first statement of main
InitMain ==
    /\ env \in Environments
    /\ pc = "check_tokens"
    /\ exit_code = -1
    /\ timestamp = 0
    /\ previous_status = None
    /\ previous_name = None
    /\ previous_error = None
    /\ homeworks = <<>>
    /\ timestamp_moved = FALSE
    /\ raised = NoExc
    /\ calls = <<>>
    /\ last_log = "none"
    /\ last_error_sent = None
    /\ yielded = None
    /\ from_date = NoRequest
    /\ cycle_last_seen = <<None, None>>
    /\ cycle_last = <<>>
    /\ last_status_sent = None

\* main is not running
MainOff ==
    /\ env = Environment(Unset, Unset, Unset)
    /\ pc = "off"
    /\ exit_code = -1
    /\ timestamp = 0
    /\ previous_status = None
    /\ previous_name = None
    /\ previous_error = None
    /\ homeworks = <<>>
    /\ timestamp_moved = FALSE
    /\ raised = NoExc
    /\ calls = <<>>
    /\ last_log = "none"
    /\ last_error_sent = None
    /\ yielded = None
    /\ from_date = NoRequest
    /\ cycle_last_seen = <<None, None>>
    /\ cycle_last = <<>>
    /\ last_status_sent = None

\* the loop of exp.py is not running
ExpOff ==
    /\ x_pc = "off"
    /\ x_timestamp = 0
    /\ current_status = None
    /\ current_error = None
    /\ x_raised = NoExc

\* neither returned nor raised: the call has not been made
Pending == [ok |-> FALSE, value |-> <<>>, exc |-> NoExc]

\* check_response is not being called
CheckOff ==
    /\ cr_in = NoBody
    /\ cr_out = Pending

\* parse_status is not being called
ParseOff ==
    /\ ps_in = NoNameHomework("")
    /\ ps_out = Pending

\* neither function is being called on its own
PureOff == CheckOff /\ ParseOff

Init == InitMain /\ ExpOff /\ PureOff

Next == Startup \/ Request \/ Fetch \/ ProcessHomework \/ Sleep

Spec == Init /\ [][Next]_vars

\* the scheduling of a sequential program: it takes its next step
FairSpec == Spec /\ WF_vars(Next)

---------------------------------------------------------------------------
(* exp.py: the minimal-variant loop.  The fragment starts at `while True`; *)
(* current_status, current_error and timestamp are taken to start as the   *)
(* corresponding variables of main do, and the functions it calls are      *)
(* those of homework.py.                                                   *)

\* lines 15-20: the handler.  o is what Telegram does with the send of the
\* error message; the result is the new current_error and the exception
\* that leaves the handler
exp_except(error, ce, o) ==
    LET message == <<"Sboi v rabote programmy: ">> \o Str(error)
    IN  IF ce # Str(error)
        THEN [current_error |-> Str(error), exc |-> send_message(message, o).exc]
        ELSE [current_error |-> ce, exc |-> NoExc]

\* lines 2-14: the try block.  The result is the new timestamp and
\* current_status and the exception that leaves the block
exp_try(reply, ts, cs, o) ==
    LET response == get_api_answer(reply)
        checked == check_response(response.value)
        homework == checked.value
        parsed == parse_status(homework[1])
        homework_status == parsed.value
        Result(t, c, e) == [timestamp |-> t, current_status |-> c, exc |-> e]
    IN  IF ~response.ok THEN Result(ts, cs, response.exc)
        ELSE IF ~checked.ok THEN Result(ts, cs, checked.exc)
        ELSE IF homework = <<>> THEN Result(response.value.current_date, cs, NoExc)
        ELSE IF ~parsed.ok THEN Result(response.value.current_date, cs, parsed.exc)
        ELSE IF cs = homework_status
        THEN Result(response.value.current_date, cs, NoExc)
        ELSE Result(response.value.current_date, homework_status,
                    send_message(homework_status, o).exc)

\* lines 2-20: one pass through try and except
ExpTry ==
    /\ x_pc = "try"
    /\ \E reply \in Replies, o1, o2 \in SendOutcomes :
         LET t == exp_try(reply, x_timestamp, current_status, o1)
             h == exp_except(t.exc, current_error, o2)
         IN  /\ x_timestamp' = t.timestamp
             /\ current_status' = t.current_status
             /\ IF t.exc = NoExc
                THEN /\ x_pc' = "finally"
                     /\ UNCHANGED <<current_error, x_raised>>
                ELSE /\ current_error' = h.current_error
                     /\ x_raised' = h.exc
                     /\ x_pc' = "finally"
    /\ UNCHANGED <<main_vars, pure_vars>>

\* lines 21-22: the finally clause; an exception that left the handler
\* goes on out of the loop once the sleep is over
ExpFinally ==
    /\ x_pc = "finally"
    /\ x_pc' = IF x_raised = NoExc THEN "try" ELSE "terminated"
    /\ UNCHANGED <<x_timestamp, current_status, current_error, x_raised>>
    /\ UNCHANGED <<main_vars, pure_vars>>

InitExp ==
    /\ x_pc = "try"
    /\ x_timestamp \in Clock
    /\ current_status = None
    /\ current_error = None
    /\ x_raised = NoExc

NextExp == ExpTry \/ ExpFinally

ExpStart == MainOff /\ InitExp /\ PureOff

SpecExp == ExpStart /\ [][NextExp]_vars

---------------------------------------------------------------------------
(* check_response on its own *)

\* the payloads check_response is applied to
CheckInputs ==
    { Payload(type, hh, hw_type, hws, hc, cd) :
        type \in {"dict", "list", "str"}, hh \in BOOLEAN,
        hw_type \in {"list", "dict", "str"},
        hws \in SeqsUpTo(Records, MaxRecords), hc \in BOOLEAN, cd \in Dates }

CallCheckResponse ==
    /\ cr_out = Pending
    /\ cr_out' = check_response(cr_in)
    /\ UNCHANGED <<cr_in, ps_in, ps_out, main_vars, exp_vars>>

InitCheck ==
    /\ cr_in \in CheckInputs
    /\ cr_out = Pending

NextCheck == CallCheckResponse

CheckStart == MainOff /\ ExpOff /\ InitCheck /\ ParseOff

SpecCheck == CheckStart /\ [][NextCheck]_vars

---------------------------------------------------------------------------
(* parse_status on its own *)

\* the homework dicts parse_status is applied to: each key present or not
ParseInputs ==
    { [has_homework_name |-> hn, homework_name |-> n,
       has_status |-> hs, status |-> st] :
        hn \in BOOLEAN, n \in {"proj1", "proj2", ""},
        hs \in BOOLEAN,
        st \in {"approved", "reviewing", "rejected", "unknown_code", ""} }

CallParseStatus ==
    /\ ps_out = Pending
    /\ ps_out' = parse_status(ps_in)
    /\ UNCHANGED <<ps_in, cr_in, cr_out, main_vars, exp_vars>>

InitParse ==
    /\ ps_in \in ParseInputs
    /\ ps_out = Pending

NextParse == CallParseStatus

ParseStart == MainOff /\ ExpOff /\ CheckOff /\ InitParse

SpecParse == ParseStart /\ [][NextParse]_vars

---------------------------------------------------------------------------
(* Claims *)

\* the positions of main inside the while loop
InLoop == {"fetch", "await", "loop", "sleep"}

\* every required value is set and not empty
Configured == \A key \in DOMAIN env : env[key].set /\ env[key].value # ""

\* the send_message calls the step being taken adds to the cycle's
NewCalls == SubSeq(calls', Len(calls) + 1, Len(calls'))

\* a notification text that reports the error exc: it ends with str(exc)
Reports(text, exc) ==
    /\ Len(text) >= Len(Str(exc))
    /\ SubSeq(text, Len(text) - Len(Str(exc)) + 1, Len(text)) = Str(exc)

\* the number of calls in cs that delivered a text reporting exc
DeliveredReports(cs, exc) ==
    Cardinality({ i \in 1..Len(cs) : cs[i].ok /\ Reports(cs[i].text, exc) })

\* C1: an error text is never delivered twice in a row: when an error
\* notification is delivered, the notification delivered last before it was
\* not the same error text, or another error was recorded in between
\* (stated for the runs with a complete configuration, as C2 to C5 are).
C1_NoRepeatedError ==
    [][\A i \in 1..Len(NewCalls) :
          (Configured /\ NewCalls[i].kind = "error" /\ NewCalls[i].ok)
              => NewCalls[i].text # last_error_sent]_vars

\* C2: a cycle that fails with a message other than the one recorded last
\* delivers exactly one notification of that error within the cycle, and a
\* cycle that fails with the message recorded last delivers none.
C2_FirstFailureNotifiesOnce ==
    [][(Configured /\ pc \in InLoop /\ raised = NoExc /\ raised' # NoExc)
          => IF ~Reports(previous_error, raised')
             THEN DeliveredReports(calls', raised') = 1
             ELSE DeliveredReports(calls', raised') = 0]_vars

C4_FailedCycleKeepsTimestamp ==
    (Configured /\ pc = "sleep" /\ raised # NoExc) => ~timestamp_moved

\* C5: timestamp never decreases while the loop runs.
C5_TimestampMonotonic ==
    [][(Configured /\ pc \in InLoop) => (timestamp' >= timestamp)]_vars

\* C6: once in the loop, main stays in it: an exception raised in a cycle
\* is caught and logged and leads to the sleep, every new fetch follows one
\* sleep, and a fetch always comes again.
C6_LoopNeverStops ==
    /\ [][(pc \in InLoop) =>
            /\ pc' \in InLoop
            /\ (raised = NoExc /\ raised' # NoExc)
                   => (pc' = "sleep" /\ last_log' = "error")
            /\ pc' = "fetch" => pc = "sleep"
            /\ pc = "sleep" => pc' = "fetch"]_vars
    /\ (pc \in InLoop) ~> (pc = "fetch")

\* C6 witness: a send has failed with the text that skips recording the
\* error, and main is at the sleep
C6_Witness ==
    /\ pc = "sleep"
    /\ raised.type = "SendMessageException"
    /\ Contains(Str(raised), "API Telegram nedostupno")

\* C7: a failed send of the pending error is caught by main: it is logged
\* and main goes to the sleep.
C7_PendingErrorSendAbsorbed ==
    (calls # <<>> /\ calls[Len(calls)].kind = "error" /\ ~calls[Len(calls)].ok)
        => /\ pc = "sleep"
           /\ raised.type = "SendMessageException"
           /\ last_log = "error"

\* C7 witness: the send of the pending error has failed
C7_Witness ==
    /\ calls # <<>>
    /\ calls[Len(calls)].kind = "error"
    /\ ~calls[Len(calls)].ok

\* C8: in exp.py no exception leaves the loop: a send_message failure
\* inside the handler is absorbed.
C8_HandlerSendFailureAbsorbed ==
    x_raised = NoExc /\ x_pc # "terminated"

\* C9: with a required value missing or empty, main logs a critical record
\* and exits with status 1, and never enters the loop.
C9_MissingOrEmptyExits ==
    (\E key \in DOMAIN env : ~env[key].set \/ env[key].value = "")
        => \/ pc = "check_tokens"
           \/ pc = "exited" /\ exit_code = 1 /\ last_log = "critical"

\* a payload check_response accepts
WellFormed(payload) ==
    /\ payload.type = "dict"
    /\ payload.has_homeworks
    /\ payload.has_current_date
    /\ payload.homeworks_type = "list"

\* C10: check_response returns exactly the homeworks list of a well-formed
\* payload and raises TypeError or CheckResponseException for any other.
C10_CheckResponse ==
    cr_out # Pending =>
        IF WellFormed(cr_in)
        THEN cr_out.ok /\ cr_out.value = cr_in.homeworks
        ELSE /\ ~cr_out.ok
             /\ cr_out.exc.type \in {"TypeError", "CheckResponseException"}

\* C10 witness: check_response has returned a non-empty list
C10_Witness == cr_out.ok /\ cr_out.value # <<>> /\ cr_out.value = cr_in.homeworks

\* C11: parse_status returns a text exactly for a record that has both
\* keys and a status of the verdict mapping, and the text holds the
\* homework name and the verdict of the status; a record lacking a key gets
\* KeyError, a record with both keys and a status outside the mapping gets
\* ParseStatusException.
C11_ParseStatus ==
    ps_out # Pending =>
        LET both == ps_in.has_homework_name /\ ps_in.has_status
            known == ps_in.status \in {"approved", "reviewing", "rejected"}
        IN  /\ ps_out.ok <=> (both /\ known)
            /\ ps_out.ok =>
                 /\ Contains(ps_out.value, ps_in.homework_name)
                 /\ Contains(ps_out.value, HOMEWORK_VERDICTS[ps_in.status])
            /\ ~both => (~ps_out.ok /\ ps_out.exc.type = "KeyError")
            /\ (both /\ ~known)
                 => (~ps_out.ok /\ ps_out.exc.type = "ParseStatusException")

\* C11 witness: parse_status has returned the text of a proj1 record
C11_Witness ==
    /\ ps_out.ok
    /\ ps_in.has_homework_name /\ ps_in.has_status
    /\ Contains(ps_out.value, "proj1")

\* the record has both keys and a status of the verdict mapping
KnownRecord(homework) ==
    /\ homework.has_homework_name
    /\ homework.has_status
    /\ homework.status \in {"approved", "reviewing", "rejected"}

\* every send_message call of the step delivered its message
NotifierWorked == \A i \in 1..Len(NewCalls) : NewCalls[i].ok

\* C12: from the initial loop state (no last-seen status, name or error), a
\* cycle whose validated list holds one record with a known status, the
\* notifier working, sends exactly one notification, whose text holds the
\* homework name and the verdict, and last-seen status and name are then
\* those of the record.
C12_FirstRecordNotified ==
    [][(/\ pc = "loop"
        /\ calls = <<>>
        /\ previous_status = None
        /\ previous_name = None
        /\ previous_error = None
        /\ Len(homeworks) = 1
        /\ KnownRecord(Head(homeworks))
        /\ NotifierWorked)
       => (/\ pc' = "sleep"
           /\ raised' = NoExc
           /\ Len(calls') = 1
           /\ calls'[1].ok
           /\ Contains(calls'[1].text, Head(homeworks).homework_name)
           /\ Contains(calls'[1].text,
                       HOMEWORK_VERDICTS[Head(homeworks).status])
           /\ previous_status' = calls'[1].text
           /\ previous_name' = <<Head(homeworks).homework_name>>)]_vars

\* C12 witness: the first cycle that held a record is over, its one
\* notification delivered and last-seen set to it
C12_Witness ==
    /\ pc = "sleep"
    /\ cycle_last_seen = <<None, None>>
    /\ previous_error = None
    /\ raised = NoExc
    /\ Len(calls) = 1
    /\ calls[1].ok
    /\ calls[1].kind = "status"
    /\ previous_status = calls[1].text
    /\ cycle_last # <<>>
    /\ previous_name = <<cycle_last[1].homework_name>>

\* the record has both keys and a status outside the verdict mapping
UnknownRecord(homework) ==
    /\ homework.has_homework_name
    /\ homework.has_status
    /\ homework.status \notin {"approved", "reviewing", "rejected"}

\* last-seen status and name are what they were when the cycle began
LastSeenAsAtStart == <<previous_status, previous_name>> = cycle_last_seen

\* C13 as stated: a cycle whose list holds a record with an unknown status
\* (here: as its last record, every send of the cycle delivered) ends with
\* the unknown-status error, last-seen status and name being what they
\* were at the start of the cycle.
C13_UnknownStatusCycleKeepsLastSeen ==
    (/\ Configured
     /\ pc = "sleep"
     /\ cycle_last # <<>>
     /\ UnknownRecord(Head(cycle_last))
     /\ \A i \in 1..Len(calls) : calls[i].ok)
    => (/\ raised.type = "ParseStatusException"
        /\ LastSeenAsAtStart)

\* C13 amended: the turn of the loop that comes to a record with an unknown
\* status ends the cycle with the unknown-status error, sends nothing and
\* leaves last-seen status and name as the records before it left them; a
\* cycle ended by that error in which no status notification was delivered
\* has last-seen status and name as at its start.
C13_UnknownStatusStepKeepsLastSeen ==
    /\ [][(pc = "loop" /\ homeworks # <<>> /\ UnknownRecord(Head(homeworks)))
          => (/\ pc' = "sleep"
              /\ raised'.type = "ParseStatusException"
              /\ calls' = calls
              /\ UNCHANGED <<previous_status, previous_name>>)]_vars
    /\ [](( /\ pc = "sleep"
            /\ raised.type = "ParseStatusException"
            /\ \A i \in 1..Len(calls) :
                   ~(calls[i].kind = "status" /\ calls[i].ok))
          => LastSeenAsAtStart)

\* C13 witness: a cycle that began with a record already seen has ended
\* with the unknown-status error, last-seen being what it was
C13_Witness ==
    /\ pc = "sleep"
    /\ raised.type = "ParseStatusException"
    /\ previous_status # None
    /\ LastSeenAsAtStart

\* the record parses, and its text or its name differs from last-seen
Changed(homework) ==
    /\ KnownRecord(homework)
    /\ ~(/\ previous_status = parse_status(homework).value
         /\ previous_name = <<homework.homework_name>>)

\* C14: for a record that differs from last-seen, with an error pending the
\* pending error text is sent first and the status notification after it,
\* in the same turn, and previous_error is None once both are delivered;
\* with no error pending only the status notification is sent.
C14_PendingErrorSentFirst ==
    [][(pc = "loop" /\ homeworks # <<>> /\ Changed(Head(homeworks)))
       => IF previous_error # None
          THEN /\ Len(NewCalls) >= 1
               /\ NewCalls[1].kind = "error"
               /\ NewCalls[1].text = previous_error
               /\ IF NewCalls[1].ok
                  THEN /\ Len(NewCalls) = 2
                       /\ NewCalls[2].kind = "status"
                       /\ NewCalls[2].text = parse_status(Head(homeworks)).value
                       /\ NewCalls[2].ok => previous_error' = None
                  ELSE Len(NewCalls) = 1
          ELSE /\ Len(NewCalls) = 1
               /\ NewCalls[1].kind = "status"
               /\ NewCalls[1].text = parse_status(Head(homeworks)).value]_vars

\* C14 witness: the pending error and then the status notification were
\* delivered in one cycle, and no error is pending
C14_Witness ==
    /\ Len(calls) >= 2
    /\ calls[1].kind = "error" /\ calls[1].ok
    /\ calls[2].kind = "status" /\ calls[2].ok
    /\ previous_error = None

\* C15: the records of a list are processed in list order, each against
\* the last-seen values the record before left.  A turn that does not fail
\* goes on with the rest of the list, keeps the calls made so far and
\* leaves last-seen as those of its record, so a cycle without failure
\* ends with last-seen being those of the last record of the list; a turn
\* that fails keeps what the records before it did (last-seen, calls) and
\* ends the cycle, the records after it not being processed.
C15_RecordsInListOrder ==
    /\ []((pc = "sleep" /\ raised = NoExc /\ cycle_last # <<>>)
          => /\ previous_status = parse_status(Head(cycle_last)).value
             /\ previous_name = <<Head(cycle_last).homework_name>>)
    /\ [][(pc = "loop" /\ homeworks # <<>>)
          => /\ SubSeq(calls', 1, Len(calls)) = calls
             /\ IF raised' = NoExc
                THEN /\ homeworks' = Tail(homeworks)
                     /\ pc' = IF homeworks' = <<>> THEN "sleep" ELSE "loop"
                     /\ (NewCalls # <<>>) <=> Changed(Head(homeworks))
                     /\ previous_status' = parse_status(Head(homeworks)).value
                     /\ previous_name' = <<Head(homeworks).homework_name>>
                ELSE /\ pc' = "sleep"
                     /\ homeworks' = <<>>
                     /\ UNCHANGED <<previous_status, previous_name>>]_vars

\* C15 witness: two records were notified one after the other in a cycle
\* that did not fail, and last-seen is the second one
C15_Witness ==
    /\ pc = "sleep"
    /\ raised = NoExc
    /\ Len(calls) = 2
    /\ calls[1].kind = "status" /\ calls[1].ok
    /\ calls[2].kind = "status" /\ calls[2].ok
    /\ calls[1].text # calls[2].text
    /\ previous_status = calls[2].text

\* C16: after a cycle whose request and validation succeeded, the next
\* request carries from_date equal to the current_date of that cycle's
\* response, whatever value the server returned, 0 included.  (yielded is
\* set only by a cycle whose list was validated and held a record, and by
\* then timestamp is the current_date of that cycle.)
C16_NextRequestFromCurrentDate ==
    (Configured /\ pc = "await" /\ yielded # None) => from_date = timestamp

\* C17: last-seen status and name change only in a step whose status
\* notification was delivered, to the text of that notification; in every
\* reachable state they are both None or the text and the name of the
\* status notification delivered last; and after a failed status send they
\* are unchanged, so the record still differs from them the next time.
C17_LastSeenIsLastDelivered ==
    /\ [](<<previous_status, previous_name>> =
              IF last_status_sent = None THEN <<None, None>>
              ELSE last_status_sent)
    /\ [][(<<previous_status, previous_name>>' # <<previous_status, previous_name>>)
          => /\ NewCalls # <<>>
             /\ NewCalls[Len(NewCalls)].kind = "status"
             /\ NewCalls[Len(NewCalls)].ok
             /\ NewCalls[Len(NewCalls)].text = previous_status']_vars
    /\ [][(/\ pc = "loop"
           /\ NewCalls # <<>>
           /\ NewCalls[Len(NewCalls)].kind = "status"
           /\ ~NewCalls[Len(NewCalls)].ok)
          => /\ UNCHANGED <<previous_status, previous_name>>
             /\ ~(/\ previous_status' = parse_status(Head(homeworks)).value
                  /\ previous_name' = <<Head(homeworks).homework_name>>)]_vars

\* C17 witness: a status notification was delivered in an earlier cycle,
\* the send of another one has just failed, and last-seen is still the
\* delivered one
C17_Witness ==
    /\ last_status_sent # None
    /\ calls # <<>>
    /\ calls[Len(calls)].kind = "status"
    /\ ~calls[Len(calls)].ok
    /\ calls[Len(calls)].text # previous_status
    /\ previous_status = last_status_sent[1]
    /\ LastSeenAsAtStart

\* C18: previous_error goes from a text to None only in a turn of the loop
\* that delivered both the pending error and the status notification after
\* it; when the pending error was delivered and the status send failed,
\* previous_error is not None afterwards: it is kept, or replaced by the
\* message of the send failure.
C18_PendingErrorClearedOnlyAfterBoth ==
    /\ [][(previous_error # None /\ previous_error' = None)
          => /\ pc = "loop"
             /\ Len(NewCalls) = 2
             /\ NewCalls[1].kind = "error"
             /\ NewCalls[1].text = previous_error
             /\ NewCalls[1].ok
             /\ NewCalls[2].kind = "status"
             /\ NewCalls[2].ok]_vars
    /\ [][(/\ pc = "loop"
           /\ Len(NewCalls) = 2
           /\ NewCalls[1].kind = "error"
           /\ NewCalls[1].ok
           /\ ~NewCalls[2].ok)
          => /\ raised'.type = "SendMessageException"
             /\ previous_error' # None
             /\ previous_error' \in
                    {previous_error,
                     <<"Oshibka otpravki soobshcheniya: ">> \o Str(raised')}]_vars

\* C18 witness: the pending error was delivered, the status send after it
\* failed, and an error is still pending
C18_Witness ==
    /\ pc = "sleep"
    /\ Len(calls) >= 2
    /\ calls[Len(calls) - 1].kind = "error"
    /\ calls[Len(calls) - 1].ok
    /\ calls[Len(calls)].kind = "status"
    /\ ~calls[Len(calls)].ok
    /\ previous_error # None

\* the two prefixes main gives to the error messages it records
ErrorPrefixes == {"Oshibka otpravki soobshcheniya: ", "Sboi v rabote programmy: "}

\* C19: when a send fails with a text containing 'API Telegram nedostupno'
\* the cycle ends and the handler leaves previous_error, previous_status
\* and previous_name as they were; when a send fails with another text, or
\* another error is raised, previous_error becomes the message of that
\* failure; so previous_error is None or the message of one failure.
C19_HandlerRecordsLatestFailure ==
    /\ [][(pc \in {"await", "loop"} /\ raised' # NoExc)
          => /\ pc' = "sleep"
             /\ IF raised'.type = "SendMessageException"
                THEN IF Contains(raised'.args, "API Telegram nedostupno")
                     THEN UNCHANGED <<previous_error, previous_status,
                                      previous_name>>
                     ELSE previous_error' =
                              <<"Oshibka otpravki soobshcheniya: ">>
                                  \o raised'.args
                ELSE previous_error' =
                         <<"Sboi v rabote programmy: ">> \o Str(raised')]_vars
    /\ [](previous_error # None
          => /\ Head(previous_error) \in ErrorPrefixes
             /\ \A i \in 2..Len(previous_error) :
                    previous_error[i] \notin ErrorPrefixes)

\* C19 witness: a send has failed with 'API Telegram nedostupno' while an
\* error was pending and a record had been seen: all three are kept
C19_Witness ==
    /\ pc = "sleep"
    /\ raised.type = "SendMessageException"
    /\ Contains(raised.args, "API Telegram nedostupno")
    /\ previous_error # None
    /\ previous_status # None
    /\ LastSeenAsAtStart

====
